---------------------------- MODULE Spec2Model ----------------------------
(***************************************************************************)
(* A model of src/app.py: the PDF page -> Markdown pipeline.               *)
(*                                                                         *)
(* Text is modelled at the character level: a Python str is a sequence of  *)
(* one-character strings, so that the regular-expression substitutions of  *)
(* clean_text, the list/heading tests and the final ''.join are computed   *)
(* as the code computes them.  A list of str is a sequence of such         *)
(* sequences.  Coordinates of words are fixed-point numbers in half units  *)
(* (the stored integer is twice the coordinate), so that int() truncates.  *)
(***************************************************************************)
EXTENDS Integers, Sequences, FiniteSets, TLC

VARIABLES
    \* ---- extract_text_to_markdown (src/app.py 358-570) ----
    pdf,                \* the opened document: a sequence of pages
    start_page,         \* argument
    end_page,           \* argument
    options,            \* the options dictionary, defaults applied
    avail,              \* MARKER_AVAILABLE, PYMUPDF_AVAILABLE, MARKITDOWN_AVAILABLE
    pc,                 \* position in extract_text_to_markdown
    page_num,           \* loop variable of the second pass (0-indexed)
    common_footers,     \* set of lines judged running footers
    markdown_content,   \* list of output chunks
    lines,              \* lines of the page being processed
    i,                  \* index into lines (0-indexed as in the code)
    paragraph_buffer,   \* list of lines
    in_list,            \* flag
    list_buffer,        \* list of formatted list items
    result,             \* the outcome of the call: a return value or a raised exception
    log,                \* what was printed about the backends, in order
    \* ---- extract_text_with_layout alone (src/app.py 128-244) ----
    lpage,              \* the page handed to extract_text_with_layout
    lpc,                \* "start" or "done"
    llines,             \* the lines built by the line grouper, with their words
    ltext,              \* the returned text
    \* ---- clean_text alone (src/app.py 60-80) ----
    ctext,              \* the input text
    cpc,                \* number of applications of clean_text so far
    cout,               \* the results of the successive applications
    \* ---- extract_pdf, the request handler (src/app.py 585-662) ----
    uploads,            \* the files of UPLOAD_FOLDER, by name
    handlers            \* the requests being served, each with its locals

extractVars == <<pdf, start_page, end_page, options, avail, pc, page_num,
                 common_footers, markdown_content, lines, i, paragraph_buffer,
                 in_list, list_buffer, result, log>>
layoutVars == <<lpage, lpc, llines, ltext>>
cleanVars == <<ctext, cpc, cout>>
serverVars == <<uploads, handlers>>
vars == <<extractVars, layoutVars, cleanVars, serverVars>>

-----------------------------------------------------------------------------
(* Characters and Python's str methods                                     *)

NL == "\n"
TAB == "\t"
SP == " "

\* the characters the model's texts are written with
UpperChars == {"A", "B", "C", "E", "G", "P"}
LowerChars == {"a", "b", "c", "e", "g", "p"}
DigitChars == {"0", "1", "2", "3", "4", "5", "6", "7", "8", "9"}

\* regex \s
IsSpace(c) == c \in {SP, TAB, NL}
\* regex \w
IsWord(c) == c \in UpperChars \cup LowerChars \cup DigitChars \cup {"_"}
\* regex [a-z]
IsLower(c) == c \in LowerChars
IsUpper(c) == c \in UpperChars
IsDigit(c) == c \in DigitChars

\* str.lower() of one character (re.IGNORECASE)
LowerOf(c) ==
    CASE c = "A" -> "a" [] c = "B" -> "b" [] c = "C" -> "c" [] c = "E" -> "e"
      [] c = "G" -> "g" [] c = "P" -> "p" [] OTHER -> c

\* None (next_line of the last line; a page without text)
None == <<"<None>">>

\* first index >= k of s that holds no whitespace (Len(s)+1 when there is none)
RECURSIVE SkipSpace(_, _)
SkipSpace(s, k) ==
    IF k > Len(s) \/ ~IsSpace(s[k]) THEN k ELSE SkipSpace(s, k + 1)

\* last index <= k of s that holds no whitespace (0 when there is none)
RECURSIVE SkipSpaceBack(_, _)
SkipSpaceBack(s, k) ==
    IF k < 1 \/ ~IsSpace(s[k]) THEN k ELSE SkipSpaceBack(s, k - 1)

\* str.strip()
Strip(s) ==
    LET a == SkipSpace(s, 1)
        b == SkipSpaceBack(s, Len(s))
    IN  IF a > b THEN <<>> ELSE SubSeq(s, a, b)

\* str.split('\n'): always at least one element
RECURSIVE SplitFrom(_, _, _)
SplitFrom(s, k, cur) ==
    IF k > Len(s) THEN <<cur>>
    ELSE IF s[k] = NL THEN <<cur>> \o SplitFrom(s, k + 1, <<>>)
    ELSE SplitFrom(s, k + 1, Append(cur, s[k]))
SplitLines(s) == SplitFrom(s, 1, <<>>)

\* sep.join(parts)
RECURSIVE Join(_, _)
Join(parts, sep) ==
    IF parts = <<>> THEN <<>>
    ELSE IF Len(parts) = 1 THEN parts[1]
    ELSE parts[1] \o sep \o Join(Tail(parts), sep)

\* ''.join(parts)
Concat(parts) == Join(parts, <<>>)

\* str.endswith(c) for a one-character suffix
EndsWith(s, c) == Len(s) >= 1 /\ s[Len(s)] = c

\* str.isupper(): at least one cased character and no lower-case one
IsUpperStr(s) ==
    /\ \E k \in 1..Len(s) : IsUpper(s[k])
    /\ \A k \in 1..Len(s) : ~IsLower(s[k])

\* str(n) for the page numbers of the model (0..9)
DigitOf(n) == CASE n = 0 -> "0" [] n = 1 -> "1" [] n = 2 -> "2" [] n = 3 -> "3"
                [] n = 4 -> "4" [] n = 5 -> "5" [] n = 6 -> "6" [] n = 7 -> "7"
                [] n = 8 -> "8" [] OTHER -> "9"
StrOfInt(n) == IF n < 0 THEN <<"-", DigitOf(-n)>> ELSE <<DigitOf(n)>>

\* text.count(pat), non-overlapping, for a non-empty pat
RECURSIVE CountFrom(_, _, _)
CountFrom(s, pat, k) ==
    IF k + Len(pat) - 1 > Len(s) THEN 0
    ELSE IF SubSeq(s, k, k + Len(pat) - 1) = pat
         THEN 1 + CountFrom(s, pat, k + Len(pat))
         ELSE CountFrom(s, pat, k + 1)
Count(s, pat) == CountFrom(s, pat, 1)

-----------------------------------------------------------------------------
(* clean_text, src/app.py 60-80                                            *)

\* re.sub(r'[ \t]+', ' ', text)
RECURSIVE CollapseBlanks(_, _)
CollapseBlanks(s, k) ==
    IF k > Len(s) THEN <<>>
    ELSE IF s[k] \in {SP, TAB}
         THEN IF k > 1 /\ s[k - 1] \in {SP, TAB}
              THEN CollapseBlanks(s, k + 1)
              ELSE <<SP>> \o CollapseBlanks(s, k + 1)
         ELSE <<s[k]>> \o CollapseBlanks(s, k + 1)

\* whether s[a..b] holds a line break
HasNL(s, a, b) == \E k \in a..b : s[k] = NL

\* re.sub(r'(\w)-\s*\n\s*(\w)', r'\1\2', text): the whitespace between the
\* hyphen and the next word character is one maximal run holding a line break.
\* Matches are found left to right and do not overlap: the scan resumes after
\* the second word character.
RECURSIVE JoinHyphenNL(_, _)
JoinHyphenNL(s, k) ==
    IF k > Len(s) THEN <<>>
    ELSE LET j == SkipSpace(s, k + 2)
         IN  IF /\ IsWord(s[k])
                /\ k + 1 <= Len(s) /\ s[k + 1] = "-"
                /\ j <= Len(s) /\ IsWord(s[j])
                /\ HasNL(s, k + 2, j - 1)
             THEN <<s[k], s[j]>> \o JoinHyphenNL(s, j + 1)
             ELSE <<s[k]>> \o JoinHyphenNL(s, k + 1)

\* re.sub(r'(\w)-\s+(\w)', r'\1\2', text)
RECURSIVE JoinHyphenSpace(_, _)
JoinHyphenSpace(s, k) ==
    IF k > Len(s) THEN <<>>
    ELSE LET j == SkipSpace(s, k + 2)
         IN  IF /\ IsWord(s[k])
                /\ k + 1 <= Len(s) /\ s[k + 1] = "-"
                /\ j <= Len(s) /\ IsWord(s[j])
                /\ j > k + 2
             THEN <<s[k], s[j]>> \o JoinHyphenSpace(s, j + 1)
             ELSE <<s[k]>> \o JoinHyphenSpace(s, k + 1)

\* re.sub(r'([a-z])\s*\n\s*([a-z])', r'\1\2', text)
RECURSIVE JoinLowerNL(_, _)
JoinLowerNL(s, k) ==
    IF k > Len(s) THEN <<>>
    ELSE LET j == SkipSpace(s, k + 1)
         IN  IF /\ IsLower(s[k])
                /\ j <= Len(s) /\ IsLower(s[j])
                /\ HasNL(s, k + 1, j - 1)
             THEN <<s[k], s[j]>> \o JoinLowerNL(s, j + 1)
             ELSE <<s[k]>> \o JoinLowerNL(s, k + 1)

\* re.sub(r'  +', ' ', text): a run of two or more spaces becomes one space
RECURSIVE CollapseSpaces(_, _)
CollapseSpaces(s, k) ==
    IF k > Len(s) THEN <<>>
    ELSE IF s[k] = SP /\ k > 1 /\ s[k - 1] = SP
         THEN CollapseSpaces(s, k + 1)
         ELSE <<s[k]>> \o CollapseSpaces(s, k + 1)

\* re.sub(r'\n\n+', '\n\n', text): a run of two or more line breaks becomes two
RECURSIVE CollapseNL(_, _)
CollapseNL(s, k) ==
    IF k > Len(s) THEN <<>>
    ELSE IF s[k] = NL /\ k > 2 /\ s[k - 1] = NL /\ s[k - 2] = NL
         THEN CollapseNL(s, k + 1)
         ELSE <<s[k]>> \o CollapseNL(s, k + 1)

clean_text(text) ==
    LET t1 == CollapseBlanks(text, 1)
        t2 == JoinHyphenNL(t1, 1)
        t3 == JoinHyphenSpace(t2, 1)
        t4 == JoinLowerNL(t3, 1)
        t5 == CollapseSpaces(t4, 1)
        t6 == CollapseNL(t5, 1)
    IN  Strip(t6)

-----------------------------------------------------------------------------
(* detect_heading, format_line_as_markdown, is_list_item                   *)

\* the bullet glyph U+2022, one character
BULLET == "U+2022"

HeadingMaxLen == 60
HeadingMinLen == 3

\* detect_heading(line, next_line), src/app.py 83-101
detect_heading(line0, next_line) ==
    LET line == Strip(line0)
    IN  IF line = <<>> THEN FALSE
        ELSE IF Len(line) >= HeadingMinLen /\ IsUpperStr(line) /\ ~EndsWith(line, ".")
             THEN TRUE
        ELSE IF /\ Len(line) < HeadingMaxLen
                /\ next_line # None
                /\ Strip(next_line) = <<>>
                /\ IsUpper(line[1])
                /\ ~(EndsWith(line, ",") \/ EndsWith(line, ";") \/ EndsWith(line, ":"))
             THEN TRUE
        ELSE FALSE

\* re.match(r'^[bullet\-\*]\s+', line)
MatchBullet(line) ==
    /\ Len(line) >= 2
    /\ line[1] \in {BULLET, "-", "*"}
    /\ IsSpace(line[2])

\* first index >= k of s that holds no digit
RECURSIVE SkipDigits(_, _)
SkipDigits(s, k) ==
    IF k > Len(s) \/ ~IsDigit(s[k]) THEN k ELSE SkipDigits(s, k + 1)

\* re.match(r'^\d+[\.\)]\s+', line)
MatchNumbered(line) ==
    LET d == SkipDigits(line, 1)
    IN  /\ d > 1
        /\ d + 1 <= Len(line)
        /\ line[d] \in {".", ")"}
        /\ IsSpace(line[d + 1])

\* is_list_item(line), src/app.py 247-261
is_list_item(line0) ==
    LET line == Strip(line0)
    IN  IF line = <<>> THEN FALSE
        ELSE IF MatchBullet(line) THEN TRUE
        ELSE IF MatchNumbered(line) THEN TRUE
        ELSE FALSE

HeadingLevel == 3

\* '#' * heading_level
Hashes(n) == [k \in 1..n |-> "#"]

\* format_line_as_markdown(line, is_heading, heading_level=3), src/app.py 104-125
format_line_as_markdown(line0, is_heading) ==
    LET line == Strip(line0)
    IN  IF line = <<>> THEN <<>>
        ELSE IF MatchBullet(line)
             THEN <<"-", SP>> \o SubSeq(line, SkipSpace(line, 2), Len(line))
        ELSE IF MatchNumbered(line) THEN line
        ELSE IF is_heading THEN Hashes(HeadingLevel) \o <<SP>> \o line
        ELSE line

\* re.match(r'^Page\s+\d+\s*$', line, re.IGNORECASE)
MatchPageNumber(line) ==
    /\ Len(line) >= 6
    /\ <<LowerOf(line[1]), LowerOf(line[2]), LowerOf(line[3]), LowerOf(line[4])>>
          = <<"p", "a", "g", "e">>
    /\ LET a == SkipSpace(line, 5)
           d == SkipDigits(line, a)
           e == SkipSpace(line, d)
       IN  a > 5 /\ d > a /\ e = Len(line) + 1

-----------------------------------------------------------------------------
(* extract_text_with_layout, src/app.py 128-244                            *)
(*                                                                         *)
(* A page is what pdfplumber gives for it:                                 *)
(*   words  : the result of page.extract_words(...), a sequence of         *)
(*            [text, x0, x1, top]                                          *)
(*   words_fail : page.extract_words(...) raises instead                   *)
(*   width  : page.width                                                   *)
(*   raw    : the result of page.extract_text(), or Raises                 *)
(*   layout : the result of page.extract_text(layout=True, ...), or Raises *)
(* x0, x1, top and width are held in half units (twice the coordinate).    *)

\* the call raises an exception
Raises == <<"<raises>">>

GapThreshold == 40
YTolerance == 5

\* int(x) of a non-negative coordinate held in half units
IntOf(h) == h \div 2

Abs(n) == IF n < 0 THEN -n ELSE n

\* sorted(set([int(w['x0']) ...] + [int(w['x1']) ...])), as a set
all_x_positions(words) ==
    {IntOf(words[k].x0) : k \in 1..Len(words)} \cup {IntOf(words[k].x1) : k \in 1..Len(words)}

\* the list gaps, lines 150-157: <<gap_size, 2 * gap_center>> for each two
\* consecutive positions more than 40 apart whose center is in the middle half
\* of the page (page_width * 0.25 < gap_center < page_width * 0.75, all times 8)
gaps(words, page_width) ==
    LET X == all_x_positions(words)
    IN  {<<b - a, a + b>> : <<a, b>> \in
            {p \in X \X X : /\ p[1] < p[2]
                            /\ ~\E c \in X : p[1] < c /\ c < p[2]
                            /\ p[2] - p[1] > GapThreshold
                            /\ page_width < 4 * (p[1] + p[2])
                            /\ 4 * (p[1] + p[2]) < 3 * page_width}}

\* gaps.sort(reverse=True); gaps[0]: the largest tuple, by size and then center
LargestGap(G) ==
    CHOOSE g \in G : \A h \in G :
        h[1] < g[1] \/ (h[1] = g[1] /\ h[2] <= g[2])

\* column_boundaries, lines 159-172: <<min_x, max_x, col_idx>>, in quarter units
column_boundaries(words, page_width) ==
    LET G == gaps(words, page_width)
    IN  IF G # {}
        THEN LET column_gap == 2 * LargestGap(G)[2]
             IN  << <<0, column_gap, 0>>, <<column_gap, 2 * page_width, 1>> >>
        ELSE << <<0, 2 * page_width, 0>> >>

\* the column a word is assigned to, lines 175-188; word_center_x in quarter units
ColumnOf(word, bounds) ==
    LET word_center_x == word.x0 + word.x1
        hit == {k \in 1..Len(bounds) :
                   bounds[k][1] <= word_center_x /\ word_center_x <= bounds[k][2]}
    IN  IF hit # {}
        THEN bounds[CHOOSE k \in hit : \A m \in hit : k <= m][3]
        ELSE \* min(distances)[1]: nearest column center, the lower index on a tie
             LET dist(k) == Abs(2 * word_center_x - (bounds[k][1] + bounds[k][2]))
                 best == CHOOSE k \in 1..Len(bounds) : \A m \in 1..Len(bounds) :
                            dist(k) < dist(m) \/ (dist(k) = dist(m) /\ bounds[k][3] <= bounds[m][3])
             IN  bounds[best][3]

\* [w for w in words if w.get('column') == col_idx]
RECURSIVE column_words(_, _, _)
column_words(words, bounds, col_idx) ==
    IF words = <<>> THEN <<>>
    ELSE IF ColumnOf(Head(words), bounds) = col_idx
         THEN <<Head(words)>> \o column_words(Tail(words), bounds, col_idx)
         ELSE column_words(Tail(words), bounds, col_idx)

\* the sort key (w['top'], w['x0']) of line 201, compared as Python compares tuples
KeyLeq(a, b) == a.top < b.top \/ (a.top = b.top /\ a.x0 <= b.x0)

\* list.sort(key=...): a stable sort
RECURSIVE SortWords(_)
SortWords(ws) ==
    IF Len(ws) <= 1 THEN ws
    ELSE LET w == ws[Len(ws)]
             s == SortWords(SubSeq(ws, 1, Len(ws) - 1))
             k == Cardinality({m \in 1..Len(s) : KeyLeq(s[m], w)})
         IN  SubSeq(s, 1, k) \o <<w>> \o SubSeq(s, k + 1, Len(s))

\* ' '.join([w['text'] for w in current_line_words])
LineText(ws) == Join([k \in 1..Len(ws) |-> ws[k].text], <<SP>>)

\* (current_line_words[0]['top'], line_text), with the words kept beside the text
MkLine(col_idx, ws) ==
    [column |-> col_idx, top |-> ws[1].top, words |-> ws, text |-> LineText(ws)]

\* the grouping loop, lines 204-226; last_top is <<>> for None
RECURSIVE GroupLines(_, _, _, _, _)
GroupLines(col_idx, ws, k, current_line_words, last_top) ==
    IF k > Len(ws)
    THEN IF current_line_words # <<>> THEN <<MkLine(col_idx, current_line_words)>> ELSE <<>>
    ELSE IF last_top = <<>> \/ Abs(ws[k].top - last_top[1]) <= 2 * YTolerance
         THEN GroupLines(col_idx, ws, k + 1, Append(current_line_words, ws[k]),
                         IF last_top = <<>> THEN <<ws[k].top>> ELSE last_top)
         ELSE (IF current_line_words # <<>>
               THEN <<MkLine(col_idx, current_line_words)>> ELSE <<>>)
              \o GroupLines(col_idx, ws, k + 1, <<ws[k]>>, <<ws[k].top>>)

\* lines_in_column.sort(key=lambda x: x[0]): a stable sort by top
RECURSIVE SortLines(_)
SortLines(ls) ==
    IF Len(ls) <= 1 THEN ls
    ELSE LET l == ls[Len(ls)]
             s == SortLines(SubSeq(ls, 1, Len(ls) - 1))
             k == Cardinality({m \in 1..Len(s) : s[m].top <= l.top})
         IN  SubSeq(s, 1, k) \o <<l>> \o SubSeq(s, k + 1, Len(s))

\* the lines of one column, lines 193-230
lines_in_column(words, bounds, col_idx) ==
    LET cw == column_words(words, bounds, col_idx)
    IN  IF cw = <<>> THEN <<>>
        ELSE SortLines(GroupLines(col_idx, SortWords(cw), 1, <<>>, <<>>))

\* result_lines with the words of each line kept, columns in index order
RECURSIVE result_lines(_, _, _)
result_lines(words, bounds, k) ==
    IF k > Len(bounds) THEN <<>>
    ELSE lines_in_column(words, bounds, k - 1) \o result_lines(words, bounds, k + 1)

layout_lines(page) ==
    result_lines(page.words, column_boundaries(page.words, page.width), 1)

\* the except branch, lines 234-244
layout_fallback(page) ==
    IF page.layout # Raises /\ page.layout # None /\ page.layout # <<>>
    THEN page.layout
    ELSE IF page.raw = Raises THEN Raises
    ELSE IF page.raw = None THEN <<>>
    ELSE page.raw

\* extract_text_with_layout(page): the returned text, None, or Raises
extract_text_with_layout(page) ==
    IF page.words_fail THEN layout_fallback(page)
    ELSE IF page.words = <<>>
         THEN IF page.raw = Raises THEN layout_fallback(page) ELSE page.raw
    ELSE LET ls == layout_lines(page)
         IN  Join([k \in 1..Len(ls) |-> ls[k].text], <<NL>>)

-----------------------------------------------------------------------------
(* clean_text applied to a text, and again to its result                   *)

MaxCleanLen == 5
CleanAlphabet == {"a", "A", "-", SP, NL}

\* all texts of at most n characters of alphabet A
TextsUpTo(A, n) == UNION {[1..k -> A] : k \in 0..n}

ApplyClean ==
    /\ cpc \in {0, 1}
    /\ cout' = Append(cout, clean_text(IF cpc = 0 THEN ctext ELSE cout[cpc]))
    /\ cpc' = cpc + 1
    /\ UNCHANGED ctext
    /\ UNCHANGED <<extractVars, layoutVars, serverVars>>

-----------------------------------------------------------------------------
(* extract_text_with_layout applied to a page                              *)

MaxWords == 2
\* page.width of the pages below: 300 units
LayoutPageWidth == 2 * 300
\* x coordinates 40, 100, 120, 120.5, 180, 260 and tops 100, 102, 115
LayoutXs == {80, 200, 240, 241, 360, 520}
LayoutTops == {200, 204, 230}
LayoutTexts == << <<"A">>, <<"b">>, <<"C">> >>

WordBoxes == {box \in [x0 : LayoutXs, x1 : LayoutXs, top : LayoutTops] : box.x0 < box.x1}

MkWord(k, box) == [text |-> LayoutTexts[k], x0 |-> box.x0, x1 |-> box.x1, top |-> box.top]

\* the text pdfplumber's own extract_text gives for the fallbacks of this page
FallbackText == <<"A", SP, "b">>

\* a page with the given words, and the pages without words: those on which
\* extract_words gives nothing or raises
WordsPage(ws) ==
    [words |-> ws, words_fail |-> FALSE, width |-> LayoutPageWidth,
     raw |-> FallbackText, layout |-> FallbackText]

NoWordsPages ==
    {[words |-> <<>>, words_fail |-> f, width |-> LayoutPageWidth, raw |-> r, layout |-> l] :
        f \in BOOLEAN, r \in {None, <<>>, FallbackText, Raises},
        l \in {<<>>, FallbackText, Raises}}

Layout ==
    /\ lpc = "start"
    /\ lpc' = "done"
    /\ ltext' = extract_text_with_layout(lpage)
    /\ llines' = IF lpage.words_fail \/ lpage.words = <<>> THEN <<>>
                 ELSE layout_lines(lpage)
    /\ UNCHANGED lpage
    /\ UNCHANGED <<extractVars, cleanVars, serverVars>>

-----------------------------------------------------------------------------
(* extract_text_to_markdown, src/app.py 358-570                            *)

TrailingLines == 3
FooterMinCount == 2
FooterMaxLen == 100

\* f"## Page {n}\n\n"
PageHeader(n) == <<"#", "#", SP, "P", "a", "g", "e", SP>> \o StrOfInt(n) \o <<NL, NL>>
\* '\n---\n\n'
PageSeparator == <<NL, "-", "-", "-", NL, NL>>

\* what Marker and MarkItDown return: the text of the whole document, whatever
\* the page range; its content is the library's and is kept opaque
MarkerText == <<"<Marker full_text>">>
MarkItDownText == <<"<MarkItDown text_content>">>

Running == [kind |-> "running"]
Returned(text) == [kind |-> "return", value |-> text]
\* raise Exception(f"Error extracting PDF: {str(e)}"), line 570: whatever was
\* raised inside the try block leaves the function as a plain Exception
Wrapped(inner_type, inner_msg) ==
    [kind |-> "raise", type |-> "Exception",
     msg |-> <<"Error extracting PDF: ">> \o inner_msg, cause |-> inner_type]
InvalidRangeMsg(total_pages) ==
    <<"Invalid page range. PDF has ">> \o StrOfInt(total_pages) \o <<" pages.">>
BackendMsg == <<"pdfplumber could not extract the page">>

\* for list_item in list_buffer: append(list_item + '\n'); append('\n')
FlushList(mc, lb) == mc \o [k \in 1..Len(lb) |-> lb[k] \o <<NL>>] \o << <<NL>> >>
\* append(' '.join(paragraph_buffer) + '\n\n')
FlushParagraph(mc, pb) == Append(mc, Join(pb, <<SP>>) \o <<NL, NL>>)

\* lines 478-486: the line is skipped before it reaches the buffers
IsFiltered(line, filter_headers_footers, footers) ==
    filter_headers_footers /\ (line \in footers \/ MatchPageNumber(line))

\* line 505
is_heading_line_always(line, next_line, preserve_formatting) ==
    detect_heading(line, next_line)
is_heading_line(line, next_line, preserve_formatting) ==
    IF preserve_formatting THEN detect_heading(line, next_line) ELSE FALSE

\* list_buffer[-1] += ' ' + line, line 539
ContinueItemNoSpace(lb, line) == [lb EXCEPT ![Len(lb)] = lb[Len(lb)] \o line]
ContinueItem(lb, line) == [lb EXCEPT ![Len(lb)] = lb[Len(lb)] \o <<SP>> \o line]

\* One iteration of the while loop, lines 474-553, on the stripped line and
\* next_line: the new paragraph_buffer (pb), in_list (il), list_buffer (lb)
\* and markdown_content (mc).
LoopStep(line, next_line, pb, il, lb, mc, opts, footers) ==
    LET same == [pb |-> pb, il |-> il, lb |-> lb, mc |-> mc]
        heading == is_heading_line(line, next_line, opts.preserve_formatting)
    IN  IF opts.filter_headers_footers /\ line \in footers THEN same
        ELSE IF opts.filter_headers_footers /\ MatchPageNumber(line) THEN same
        ELSE IF line = <<>>
             THEN IF il /\ lb # <<>>
                  THEN [pb |-> pb, il |-> FALSE, lb |-> <<>>, mc |-> FlushList(mc, lb)]
                  ELSE IF pb # <<>>
                       THEN [pb |-> <<>>, il |-> il, lb |-> lb, mc |-> FlushParagraph(mc, pb)]
                       ELSE same
        ELSE IF heading
             THEN LET flushedList == il /\ lb # <<>>
                      mc1 == IF flushedList THEN FlushList(mc, lb) ELSE mc
                      mc2 == IF pb # <<>> THEN FlushParagraph(mc1, pb) ELSE mc1
                  IN  [pb |-> <<>>,
                       il |-> IF flushedList THEN FALSE ELSE il,
                       lb |-> IF flushedList THEN <<>> ELSE lb,
                       mc |-> Append(mc2, format_line_as_markdown(line, TRUE) \o <<NL, NL>>)]
        ELSE IF is_list_item(line)
             THEN [pb |-> <<>>, il |-> TRUE,
                   lb |-> Append(lb, format_line_as_markdown(line, FALSE)),
                   mc |-> IF pb # <<>> THEN FlushParagraph(mc, pb) ELSE mc]
        ELSE IF il
             THEN IF lb # <<>> /\ ~heading
                  THEN [pb |-> pb, il |-> il,
                        lb |-> ContinueItem(lb, line),
                        mc |-> mc]
                  ELSE [pb |-> Append(pb, line), il |-> FALSE, lb |-> <<>>,
                        mc |-> FlushList(mc, lb)]
        ELSE [pb |-> Append(pb, line), il |-> il, lb |-> lb, mc |-> mc]

\* lines 555-565: the flush at the end of a page and the page separator
EndOfPage(pb, il, lb, mc, opts, pn, ep) ==
    LET mc1 == IF il /\ lb # <<>> THEN FlushList(mc, lb) ELSE mc
        mc2 == IF pb # <<>> THEN FlushParagraph(mc1, pb) ELSE mc1
    IN  IF opts.include_page_breaks /\ pn < ep - 1 THEN Append(mc2, PageSeparator) ELSE mc2

\* lines[-3:]
LastLines(ls) == IF Len(ls) <= TrailingLines THEN ls
                 ELSE SubSeq(ls, Len(ls) - TrailingLines + 1, Len(ls))

\* [l.strip() for l in lines[-3:] if l.strip()] of one page's extract_text()
PageLastLines(text) ==
    IF text = None \/ text = <<>> THEN <<>>
    ELSE LET ls == LastLines(SplitLines(text))
         IN  SelectSeq([k \in 1..Len(ls) |-> Strip(ls[k])], LAMBDA l : l # <<>>)

\* page_last_lines over pages a..b (1-indexed), lines 440-447
RECURSIVE page_last_lines(_, _, _)
page_last_lines(doc, a, b) ==
    IF a > b THEN <<>>
    ELSE PageLastLines(doc[a].raw) \o page_last_lines(doc, a + 1, b)

\* Counter(page_last_lines)[line]
LineCount(pll, line) == Cardinality({k \in 1..Len(pll) : pll[k] = line})

\* line 452
CommonFootersFromTwo(pll) ==
    {pll[k] : k \in {m \in 1..Len(pll) :
                        LineCount(pll, pll[m]) >= FooterMinCount /\ Len(pll[m]) < FooterMaxLen}}
CommonFooters(pll) ==
    {pll[k] : k \in {m \in 1..Len(pll) :
                        LineCount(pll, pll[m]) > FooterMinCount /\ Len(pll[m]) < FooterMaxLen}}

\* doc[page_num] of PyMuPDF: a negative index counts from the end
FitzPage(doc, pn) == doc[(pn % Len(doc)) + 1]

\* page.get_text("blocks") of PyMuPDF, taken to be one block per line of the
\* page's text; the text of each non-empty block followed by a blank line
RECURSIVE BlockTexts(_)
BlockTexts(ls) ==
    IF ls = <<>> THEN <<>>
    ELSE (IF Strip(Head(ls)) # <<>> THEN <<Strip(Head(ls)) \o <<NL, NL>>>> ELSE <<>>)
         \o BlockTexts(Tail(ls))

\* the loop of extract_with_pymupdf, lines 330-350, from page_num pn
RECURSIVE PyMuPDFChunks(_, _, _)
PyMuPDFChunks(doc, pn, ep) ==
    IF pn >= ep \/ pn >= Len(doc) THEN <<>>
    ELSE LET page == FitzPage(doc, pn)
             text == IF page.raw = None THEN <<>> ELSE page.raw
         IN  <<PageHeader(pn + 1)>> \o BlockTexts(SplitLines(text))
             \o <<PageSeparator>> \o PyMuPDFChunks(doc, pn + 1, ep)

\* whether PyMuPDF raises on one of the pages it reads
PyMuPDFRaises(doc, sp, ep) ==
    \E pn \in (sp - 1)..(ep - 1) : pn < Len(doc) /\ FitzPage(doc, pn).raw = Raises

\* ---- the steps of extract_text_to_markdown ----

\* lines 382-393: Marker, when requested and available
Marker ==
    /\ pc = "marker"
    /\ IF options.use_marker /\ avail.marker
       THEN \E ok \in BOOLEAN :
               IF ok
               THEN /\ result' = Returned(MarkerText)
                    /\ pc' = "done"
                    /\ log' = log \o <<"Attempting extraction with Marker...",
                                       "Marker extraction successful!">>
               ELSE /\ pc' = "pymupdf"
                    /\ log' = log \o <<"Attempting extraction with Marker...",
                                       "Marker failed with error">>
                    /\ UNCHANGED result
       ELSE pc' = "pymupdf" /\ UNCHANGED <<result, log>>
    /\ UNCHANGED <<layoutVars, cleanVars, serverVars>>
    /\ UNCHANGED <<pdf, start_page, end_page, options, avail, page_num, common_footers,
                   markdown_content, lines, i, paragraph_buffer, in_list, list_buffer>>

\* lines 395-404 with extract_with_pymupdf, lines 310-355
PyMuPDF ==
    /\ pc = "pymupdf"
    /\ IF options.use_pymupdf /\ avail.pymupdf
       THEN \E ok \in BOOLEAN :
               IF ok /\ ~PyMuPDFRaises(pdf, start_page, end_page)
               THEN /\ result' = Returned(Concat(PyMuPDFChunks(pdf, start_page - 1, end_page)))
                    /\ pc' = "done"
                    /\ log' = log \o <<"Attempting extraction with PyMuPDF...",
                                       "PyMuPDF extraction successful!">>
               ELSE /\ pc' = "markitdown"
                    /\ log' = log \o <<"Attempting extraction with PyMuPDF...",
                                       "PyMuPDF failed with error">>
                    /\ UNCHANGED result
       ELSE pc' = "markitdown" /\ UNCHANGED <<result, log>>
    /\ UNCHANGED <<layoutVars, cleanVars, serverVars>>
    /\ UNCHANGED <<pdf, start_page, end_page, options, avail, page_num, common_footers,
                   markdown_content, lines, i, paragraph_buffer, in_list, list_buffer>>

\* lines 415-419: MarkItDown's text of the whole document is returned when the
\* requested range is the whole document
CoversDocumentAlways(sp, ep, total_pages) == TRUE
CoversDocument(sp, ep, total_pages) == sp = 1 /\ ep >= total_pages

\* lines 406-424 with extract_with_markitdown, lines 264-280
MarkItDown ==
    /\ pc = "markitdown"
    /\ IF options.use_markitdown /\ avail.markitdown
       THEN \E ok \in BOOLEAN :
               IF ok
               THEN IF CoversDocument(start_page, end_page, Len(pdf))
                    THEN /\ result' = Returned(MarkItDownText)
                         /\ pc' = "done"
                         /\ log' = log \o <<"Attempting extraction with MarkItDown...">>
                    ELSE /\ pc' = "plumber"
                         /\ log' = log \o <<"Attempting extraction with MarkItDown...">>
                         /\ UNCHANGED result
               ELSE /\ pc' = "plumber"
                    /\ log' = log \o <<"Attempting extraction with MarkItDown...",
                                       "MarkItDown failed with error">>
                    /\ UNCHANGED result
       ELSE pc' = "plumber" /\ UNCHANGED <<result, log>>
    /\ UNCHANGED <<layoutVars, cleanVars, serverVars>>
    /\ UNCHANGED <<pdf, start_page, end_page, options, avail, page_num, common_footers,
                   markdown_content, lines, i, paragraph_buffer, in_list, list_buffer>>

\* line 435
InvalidRange(sp, ep, total_pages) == sp < 1 \/ ep > total_pages \/ sp > ep

\* lines 426-436: the fallback is announced, the document opened, the range validated
Validate ==
    /\ pc = "plumber"
    /\ log' = Append(log, "Falling back to pdfplumber extraction...")
    /\ markdown_content' = <<>>
    /\ common_footers' = {}
    /\ IF InvalidRange(start_page, end_page, Len(pdf))
       THEN /\ result' = Wrapped("ValueError", InvalidRangeMsg(Len(pdf)))
            /\ pc' = "done"
       ELSE /\ pc' = "first_pass"
            /\ UNCHANGED result
    /\ UNCHANGED <<layoutVars, cleanVars, serverVars>>
    /\ UNCHANGED <<pdf, start_page, end_page, options, avail, page_num,
                   lines, i, paragraph_buffer, in_list, list_buffer>>

\* lines 438-452: the first pass over the pages of the range
FirstPass ==
    /\ pc = "first_pass"
    /\ IF options.filter_headers_footers
       THEN IF \E k \in start_page..end_page : pdf[k].raw = Raises
            THEN /\ result' = Wrapped("Exception", BackendMsg)
                 /\ pc' = "done"
                 /\ UNCHANGED <<common_footers, page_num>>
            ELSE /\ common_footers' = CommonFooters(page_last_lines(pdf, start_page, end_page))
                 /\ page_num' = start_page - 1
                 /\ pc' = "page"
                 /\ UNCHANGED result
       ELSE /\ page_num' = start_page - 1
            /\ pc' = "page"
            /\ UNCHANGED <<common_footers, result>>
    /\ UNCHANGED <<layoutVars, cleanVars, serverVars>>
    /\ UNCHANGED <<pdf, start_page, end_page, options, avail, markdown_content,
                   lines, i, paragraph_buffer, in_list, list_buffer, log>>

\* lines 470-472: the buffers of the loop are set up anew for the page
KeepBuffers(pb, il, lb) == [pb |-> pb, il |-> il, lb |-> lb]
ResetBuffers(pb, il, lb) == [pb |-> <<>>, il |-> FALSE, lb |-> <<>>]

\* lines 455-472: a page of the second pass is extracted and its loop set up
StartPage ==
    /\ pc = "page"
    /\ page_num < end_page
    /\ LET text == extract_text_with_layout(pdf[page_num + 1])
       IN  IF text = Raises
           THEN /\ result' = Wrapped("Exception", BackendMsg)
                /\ pc' = "done"
                /\ UNCHANGED <<page_num, markdown_content, lines, i,
                               paragraph_buffer, in_list, list_buffer>>
           ELSE IF text = None \/ text = <<>>
           THEN /\ page_num' = page_num + 1
                /\ UNCHANGED <<pc, result, markdown_content, lines, i,
                               paragraph_buffer, in_list, list_buffer>>
           ELSE /\ markdown_content' =
                      IF options.include_page_numbers
                      THEN Append(markdown_content, PageHeader(page_num + 1))
                      ELSE markdown_content
                /\ lines' = SplitLines(clean_text(text))
                /\ i' = 0
                /\ paragraph_buffer' = ResetBuffers(paragraph_buffer, in_list, list_buffer).pb
                /\ in_list' = ResetBuffers(paragraph_buffer, in_list, list_buffer).il
                /\ list_buffer' = ResetBuffers(paragraph_buffer, in_list, list_buffer).lb
                /\ pc' = "line"
                /\ UNCHANGED <<page_num, result>>
    /\ UNCHANGED <<layoutVars, cleanVars, serverVars>>
    /\ UNCHANGED <<pdf, start_page, end_page, options, avail, common_footers, log>>

\* line 475-476
CurLine == Strip(lines[i + 1])
NextLine == IF i + 1 < Len(lines) THEN Strip(lines[i + 2]) ELSE None

\* lines 474-553: one iteration of the while loop
ProcessLine ==
    /\ pc = "line"
    /\ i < Len(lines)
    /\ LET st == LoopStep(CurLine, NextLine, paragraph_buffer, in_list, list_buffer,
                          markdown_content, options, common_footers)
       IN  /\ paragraph_buffer' = st.pb
           /\ in_list' = st.il
           /\ list_buffer' = st.lb
           /\ markdown_content' = st.mc
    /\ i' = i + 1
    /\ UNCHANGED <<layoutVars, cleanVars, serverVars>>
    /\ UNCHANGED <<pdf, start_page, end_page, options, avail, pc, page_num,
                   common_footers, lines, result, log>>

\* lines 555-565: the loop is over; the buffers are flushed, the separator added
EndPage ==
    /\ pc = "line"
    /\ i >= Len(lines)
    /\ markdown_content' = EndOfPage(paragraph_buffer, in_list, list_buffer,
                                     markdown_content, options, page_num, end_page)
    /\ page_num' = page_num + 1
    /\ pc' = "page"
    /\ UNCHANGED <<layoutVars, cleanVars, serverVars>>
    /\ UNCHANGED <<pdf, start_page, end_page, options, avail, common_footers,
                   lines, i, paragraph_buffer, in_list, list_buffer, result, log>>

\* line 567
Return ==
    /\ pc = "page"
    /\ page_num >= end_page
    /\ result' = Returned(Concat(markdown_content))
    /\ pc' = "done"
    /\ UNCHANGED <<layoutVars, cleanVars, serverVars>>
    /\ UNCHANGED <<pdf, start_page, end_page, options, avail, page_num, common_footers,
                   markdown_content, lines, i, paragraph_buffer, in_list, list_buffer, log>>

-----------------------------------------------------------------------------
(* The documents and requests the checks run on                            *)

\* the words pdfplumber gives for a page set in one column: line k at top
\* 100 + 20 k, its words 30 wide and 10 apart from x = 50 on (half units)
TextLineWords(k, line) ==
    [j \in 1..Len(line) |->
        [text |-> line[j], x0 |-> 2 * (50 + 40 * (j - 1)),
         x1 |-> 2 * (80 + 40 * (j - 1)), top |-> 2 * (100 + 20 * k)]]

RECURSIVE TextPageWords(_, _)
TextPageWords(ls, k) ==
    IF k > Len(ls) THEN <<>>
    ELSE TextLineWords(k, ls[k]) \o TextPageWords(ls, k + 1)

\* a one-column page whose lines are ls, each a sequence of words
TextPage(ls) ==
    LET text == Join([k \in 1..Len(ls) |-> Join(ls[k], <<SP>>)], <<NL>>)
    IN  [words |-> TextPageWords(ls, 1), words_fail |-> FALSE, width |-> 600,
         raw |-> text, layout |-> text]

\* a page without any text
EmptyPage ==
    [words |-> <<>>, words_fail |-> FALSE, width |-> 600, raw |-> <<>>, layout |-> <<>>]

\* a page whose extract_words raises, so that the text is that of
\* extract_text(layout=True): the only texts that hold blank lines
LayoutTextPage(text) ==
    [words |-> <<>>, words_fail |-> TRUE, width |-> 600, raw |-> text, layout |-> text]

\* a page pdfplumber cannot read at all
BrokenPage ==
    [words |-> <<>>, words_fail |-> TRUE, width |-> 600, raw |-> Raises, layout |-> Raises]

\* all sequences of 1 to n elements of S
SeqsUpTo(S, n) == UNION {[1..k -> S] : k \in 1..n}

Options(m, p, k, n, b, f, v) ==
    [use_marker |-> m, use_pymupdf |-> p, use_markitdown |-> k,
     include_page_numbers |-> n, include_page_breaks |-> b,
     filter_headers_footers |-> f, preserve_formatting |-> v]

NoBackend == [marker |-> FALSE, pymupdf |-> FALSE, markitdown |-> FALSE]

\* the state in which extract_text_to_markdown is entered
Entered ==
    /\ pc = "marker"
    /\ page_num = 0
    /\ common_footers = {}
    /\ markdown_content = <<>>
    /\ lines = <<>>
    /\ i = 0
    /\ paragraph_buffer = <<>>
    /\ in_list = FALSE
    /\ list_buffer = <<>>
    /\ result = Running
    /\ log = <<>>

\* ---- page-level runs: documents of whole pages, pdfplumber alone ----
MaxPages == 3

PageSamples ==
    { EmptyPage,
      \* "Ab" / "Cc"
      TextPage(<< <<<<"A", "b">>>>, <<<<"C", "c">>>> >>),
      \* "Cc" / "Cc": the same line twice among the last three
      TextPage(<< <<<<"C", "c">>>>, <<<<"C", "c">>>> >>),
      \* "Cc" / "- Ab" / "Bb" / "Page 2": "Cc" above the last three lines
      TextPage(<< <<<<"C", "c">>>>, <<<<"-">>, <<"A", "b">>>>, <<<<"B", "b">>>>,
                  <<<<"P", "a", "g", "e">>, <<"2">>>> >>),
      \* "ab" / "cc": two lines clean_text joins into "abcc"
      TextPage(<< <<<<"a", "b">>>>, <<<<"c", "c">>>> >>) }

Init ==
    /\ pdf \in SeqsUpTo(PageSamples, MaxPages)
    /\ start_page \in 1..MaxPages
    /\ end_page \in 1..MaxPages
    /\ start_page <= end_page /\ end_page <= Len(pdf)
    /\ options \in {Options(FALSE, FALSE, FALSE, n, b, f, TRUE) : n, b, f \in BOOLEAN}
    /\ avail = NoBackend
    /\ Entered
    /\ lpage = EmptyPage /\ lpc = "idle" /\ llines = <<>> /\ ltext = None
    /\ ctext = <<>> /\ cpc = -1 /\ cout = <<>>
    /\ uploads = <<>> /\ handlers = <<>>

\* ---- requests with any range and any backends ----
MaxRangePages == 2

InitRange ==
    /\ pdf \in SeqsUpTo({EmptyPage, TextPage(<< <<<<"A", "b">>>> >>)}, MaxRangePages)
    /\ start_page \in 0..(MaxRangePages + 1)
    /\ end_page \in 0..(MaxRangePages + 1)
    /\ options \in {Options(m, p, k, TRUE, TRUE, TRUE, TRUE) : m, p, k \in BOOLEAN}
    /\ avail \in [marker : BOOLEAN, pymupdf : BOOLEAN, markitdown : BOOLEAN]
    /\ Entered
    /\ lpage = EmptyPage /\ lpc = "idle" /\ llines = <<>> /\ ltext = None
    /\ ctext = <<>> /\ cpc = -1 /\ cout = <<>>
    /\ uploads = <<>> /\ handlers = <<>>

\* ---- one page, any lines: the block-assembly loop ----
MaxLines == 3

LoopLines ==
    { <<>>,                                  \* a blank line
      <<"A", "B", "C">>,                     \* upper case
      <<"A", "b">>,                          \* capitalised
      <<"a", "b">>,                          \* lower case
      <<"-", SP, "a", "b">>,                 \* a bullet item
      <<"1", ".", SP, "A", "B">>,            \* a numbered item in upper case
      <<"*", SP, "A", "B">>,                 \* a bullet item in upper case
      <<"A", "b", ":">>,                     \* capitalised, ending in a colon
      <<"P", "a", "g", "e", SP, "2">> }      \* a page-number stamp

InitLoop ==
    /\ pdf \in {<<LayoutTextPage(Join(ls, <<NL>>))>> : ls \in SeqsUpTo(LoopLines, MaxLines)}
    /\ start_page = 1
    /\ end_page = 1
    /\ options \in {Options(FALSE, FALSE, FALSE, TRUE, TRUE, f, v) : f, v \in BOOLEAN}
    /\ avail = NoBackend
    /\ Entered
    /\ lpage = EmptyPage /\ lpc = "idle" /\ llines = <<>> /\ ltext = None
    /\ ctext = <<>> /\ cpc = -1 /\ cout = <<>>
    /\ uploads = <<>> /\ handlers = <<>>

\* ---- documents with pages pdfplumber fails on ----
MaxFailPages == 2

\* a page whose extract_words raises and whose extract_text(layout=True)
\* raises or gives nothing (layout), extract_text() giving raw
WordsFailPage(layout, raw) ==
    [words |-> <<>>, words_fail |-> TRUE, width |-> 600, raw |-> raw, layout |-> layout]

FailSamples ==
    { TextPage(<< <<<<"A", "b">>>> >>),
      EmptyPage,
      LayoutTextPage(<<"C", "c">>),
      WordsFailPage(Raises, <<"D", "d">>),
      WordsFailPage(Raises, None),
      WordsFailPage(<<>>, <<>>),
      BrokenPage }

InitFail ==
    /\ pdf \in SeqsUpTo(FailSamples, MaxFailPages)
    /\ start_page \in 1..MaxFailPages
    /\ end_page \in 1..MaxFailPages
    /\ start_page <= end_page /\ end_page <= Len(pdf)
    /\ options \in {Options(FALSE, FALSE, FALSE, n, b, f, TRUE) : n, b, f \in BOOLEAN}
    /\ avail = NoBackend
    /\ Entered
    /\ lpage = EmptyPage /\ lpc = "idle" /\ llines = <<>> /\ ltext = None
    /\ ctext = <<>> /\ cpc = -1 /\ cout = <<>>
    /\ uploads = <<>> /\ handlers = <<>>

\* ---- the chain of backends: any range, any backends, pages that fail ----
MaxChainPages == 2

InitChain ==
    /\ pdf \in SeqsUpTo({TextPage(<< <<<<"A", "b">>>> >>), BrokenPage}, MaxChainPages)
    /\ start_page \in 0..(MaxChainPages + 1)
    /\ end_page \in 0..(MaxChainPages + 1)
    /\ options \in {Options(m, p, k, TRUE, TRUE, f, TRUE) : m, p, k, f \in BOOLEAN}
    /\ avail \in [marker : BOOLEAN, pymupdf : BOOLEAN, markitdown : BOOLEAN]
    /\ Entered
    /\ lpage = EmptyPage /\ lpc = "idle" /\ llines = <<>> /\ ltext = None
    /\ ctext = <<>> /\ cpc = -1 /\ cout = <<>>
    /\ uploads = <<>> /\ handlers = <<>>

Next ==
    \/ Marker
    \/ PyMuPDF
    \/ MarkItDown
    \/ Validate
    \/ FirstPass
    \/ StartPage
    \/ ProcessLine
    \/ EndPage
    \/ Return

Spec == Init /\ [][Next]_vars
SpecRange == InitRange /\ [][Next]_vars
SpecLoop == InitLoop /\ [][Next]_vars
SpecFail == InitFail /\ [][Next]_vars
SpecChain == InitChain /\ [][Next]_vars

InitLayout ==
    /\ \/ lpage \in NoWordsPages
       \/ \E n \in 1..MaxWords : \E bs \in [1..n -> WordBoxes] :
              lpage = WordsPage([k \in 1..n |-> MkWord(k, bs[k])])
    /\ lpc = "start"
    /\ llines = <<>>
    /\ ltext = None
    /\ pdf = <<>> /\ start_page = 1 /\ end_page = 0
    /\ options = Options(FALSE, FALSE, FALSE, FALSE, FALSE, FALSE, FALSE)
    /\ avail = NoBackend
    /\ pc = "idle"
    /\ page_num = 0
    /\ common_footers = {}
    /\ markdown_content = <<>>
    /\ lines = <<>>
    /\ i = 0
    /\ paragraph_buffer = <<>>
    /\ in_list = FALSE
    /\ list_buffer = <<>>
    /\ result = Running
    /\ log = <<>>
    /\ ctext = <<>> /\ cpc = -1 /\ cout = <<>>
    /\ uploads = <<>> /\ handlers = <<>>

NextLayout == Layout
SpecLayout == InitLayout /\ [][NextLayout]_vars

InitClean ==
    /\ ctext \in TextsUpTo(CleanAlphabet, MaxCleanLen)
    /\ cpc = 0
    /\ cout = <<>>
    /\ pdf = <<>> /\ start_page = 1 /\ end_page = 0
    /\ options = Options(FALSE, FALSE, FALSE, FALSE, FALSE, FALSE, FALSE)
    /\ avail = NoBackend
    /\ pc = "idle"
    /\ page_num = 0
    /\ common_footers = {}
    /\ markdown_content = <<>>
    /\ lines = <<>>
    /\ i = 0
    /\ paragraph_buffer = <<>>
    /\ in_list = FALSE
    /\ list_buffer = <<>>
    /\ result = Running
    /\ log = <<>>
    /\ lpage = EmptyPage /\ lpc = "idle" /\ llines = <<>> /\ ltext = None
    /\ uploads = <<>> /\ handlers = <<>>

NextClean == ApplyClean
SpecClean == InitClean /\ [][NextClean]_vars

-----------------------------------------------------------------------------
(* extract_pdf, src/app.py 585-662: requests served at the same time       *)

\* the while loop of lines 474-553 run from line k of ls to its end
RECURSIVE RunLoop(_, _, _, _, _)
RunLoop(ls, k, st, opts, footers) ==
    IF k >= Len(ls) THEN st
    ELSE RunLoop(ls, k + 1,
                 LoopStep(Strip(ls[k + 1]),
                          IF k + 1 < Len(ls) THEN Strip(ls[k + 2]) ELSE None,
                          st.pb, st.il, st.lb, st.mc, opts, footers),
                 opts, footers)

\* the second pass, lines 455-567, from page_num pn
RECURSIVE SecondPass(_, _, _, _, _, _)
SecondPass(doc, pn, ep, mc, opts, footers) ==
    IF pn >= ep THEN Returned(Concat(mc))
    ELSE LET text == extract_text_with_layout(doc[pn + 1])
         IN  IF text = Raises THEN Wrapped("Exception", BackendMsg)
             ELSE IF text = None \/ text = <<>>
                  THEN SecondPass(doc, pn + 1, ep, mc, opts, footers)
             ELSE LET mc0 == IF opts.include_page_numbers
                             THEN Append(mc, PageHeader(pn + 1)) ELSE mc
                      st == RunLoop(SplitLines(clean_text(text)), 0,
                                    [pb |-> <<>>, il |-> FALSE, lb |-> <<>>, mc |-> mc0],
                                    opts, footers)
                  IN  SecondPass(doc, pn + 1, ep,
                                 EndOfPage(st.pb, st.il, st.lb, st.mc, opts, pn, ep),
                                 opts, footers)

\* extract_text_to_markdown(pdf_path, start_page, end_page, options) on a file
\* holding document doc, where none of the optional backends is installed
\* (lines 426-570): what it returns or raises
extract_text_to_markdown(doc, sp, ep, opts) ==
    IF InvalidRange(sp, ep, Len(doc))
    THEN Wrapped("ValueError", InvalidRangeMsg(Len(doc)))
    ELSE IF opts.filter_headers_footers /\ \E k \in sp..ep : doc[k].raw = Raises
    THEN Wrapped("Exception", BackendMsg)
    ELSE SecondPass(doc, sp - 1, ep, <<>>, opts,
                    IF opts.filter_headers_footers
                    THEN CommonFooters(page_last_lines(doc, sp, ep)) ELSE {})

\* an entry of the folder: no file of that name, or a file holding document doc
Absent == [present |-> FALSE, doc |-> <<>>]
Stored(doc) == [present |-> TRUE, doc |-> doc]

\* werkzeug's secure_filename on the names used here: white space becomes '_'
secure_filename(name) == [k \in 1..Len(name) |-> IF IsSpace(name[k]) THEN "_" ELSE name[k]]

\* allowed_file, lines 55-57
allowed_file(filename) ==
    /\ \E k \in 1..Len(filename) : filename[k] = "."
    /\ LET dot == CHOOSE k \in 1..Len(filename) :
                      filename[k] = "." /\ \A m \in (k + 1)..Len(filename) : filename[m] # "."
           ext == SubSeq(filename, dot + 1, Len(filename))
       IN  [k \in 1..Len(ext) |-> LowerOf(ext[k])] = <<"p", "d", "f">>

\* the options of lines 629-637 when the form gives none
FormDefaults == Options(TRUE, FALSE, FALSE, TRUE, TRUE, TRUE, TRUE)

\* the responses of extract_pdf
NoResponse == [status |-> 0]
Success(markdown, sp, ep, total_pages) ==
    [status |-> 200, markdown |-> markdown,
     pages_extracted |-> StrOfInt(sp) \o <<"-">> \o StrOfInt(ep), total_pages |-> total_pages]
\* line 611
InvalidType == [status |-> 400, error |-> <<"Invalid file type. Only PDF files are allowed.">>]
\* line 662
Failure(msg) == [status |-> 500, error |-> <<"An error occurred: ">> \o msg]
\* an exception that leaves the handler: the framework's own error page
Unhandled == [status |-> 500, error |-> <<"Internal Server Error">>]
NoSuchFile == <<"[Errno 2] No such file or directory">>

MaxRequests == 2
Requests == 1..MaxRequests

\* lines 599-617: the upload is checked and saved under its secured name
Save(r) ==
    LET h == handlers[r]
    IN  /\ h.pc = "save"
        /\ IF ~allowed_file(h.filename)
           THEN /\ handlers' = [handlers EXCEPT ![r].pc = "done", ![r].response = InvalidType]
                /\ UNCHANGED uploads
           ELSE /\ uploads' = [uploads EXCEPT ![secure_filename(h.filename)] = Stored(h.file)]
                /\ handlers' = [handlers EXCEPT ![r].pc = "count",
                                                 ![r].filepath = secure_filename(h.filename)]
        /\ UNCHANGED <<extractVars, layoutVars, cleanVars>>

\* lines 620-626: the file is opened for its number of pages, the default end_page
CountPages(r) ==
    LET h == handlers[r]
    IN  /\ h.pc = "count"
        /\ IF ~uploads[h.filepath].present
           THEN handlers' = [handlers EXCEPT ![r].pc = "except",
                                             ![r].pending = Failure(NoSuchFile)]
           ELSE handlers' = [handlers EXCEPT ![r].pc = "extract",
                                             ![r].total_pages = Len(uploads[h.filepath].doc),
                                             ![r].end_page = Len(uploads[h.filepath].doc)]
        /\ UNCHANGED uploads
        /\ UNCHANGED <<extractVars, layoutVars, cleanVars>>

\* line 640: extract_text_to_markdown opens the file at filepath and reads it
Extract(r) ==
    LET h == handlers[r]
        doc == uploads[h.filepath].doc
        res == extract_text_to_markdown(doc, h.start_page, h.end_page, FormDefaults)
    IN  /\ h.pc = "extract"
        /\ IF ~uploads[h.filepath].present
           THEN handlers' = [handlers EXCEPT
                                ![r].pc = "except",
                                ![r].pending = Failure(<<"Error extracting PDF: ">> \o NoSuchFile)]
           ELSE IF res.kind = "raise"
           THEN handlers' = [handlers EXCEPT ![r].pc = "except", ![r].read = doc,
                                             ![r].pending = Failure(res.msg)]
           ELSE handlers' = [handlers EXCEPT ![r].pc = "remove", ![r].read = doc,
                                             ![r].markdown_text = res.value]
        /\ UNCHANGED uploads
        /\ UNCHANGED <<extractVars, layoutVars, cleanVars>>

\* lines 643-650: the file is removed and the result returned
Remove(r) ==
    LET h == handlers[r]
    IN  /\ h.pc = "remove"
        /\ IF ~uploads[h.filepath].present
           THEN /\ handlers' = [handlers EXCEPT ![r].pc = "except",
                                                 ![r].pending = Failure(NoSuchFile)]
                /\ UNCHANGED uploads
           ELSE /\ uploads' = [uploads EXCEPT ![h.filepath] = Absent]
                /\ handlers' = [handlers EXCEPT
                                   ![r].pc = "done",
                                   ![r].response = Success(h.markdown_text, h.start_page,
                                                           h.end_page, h.total_pages)]
        /\ UNCHANGED <<extractVars, layoutVars, cleanVars>>

\* lines 658-660 (and 652-654): os.path.exists(filepath) in the except branch
Exists(r) ==
    LET h == handlers[r]
    IN  /\ h.pc = "except"
        /\ IF uploads[h.filepath].present
           THEN handlers' = [handlers EXCEPT ![r].pc = "cleanup"]
           ELSE handlers' = [handlers EXCEPT ![r].pc = "done", ![r].response = h.pending]
        /\ UNCHANGED uploads
        /\ UNCHANGED <<extractVars, layoutVars, cleanVars>>

\* lines 661-662: os.remove(filepath) after the test, and the error response
Cleanup(r) ==
    LET h == handlers[r]
    IN  /\ h.pc = "cleanup"
        /\ IF ~uploads[h.filepath].present
           THEN /\ handlers' = [handlers EXCEPT ![r].pc = "done", ![r].response = Unhandled]
                /\ UNCHANGED uploads
           ELSE /\ uploads' = [uploads EXCEPT ![h.filepath] = Absent]
                /\ handlers' = [handlers EXCEPT ![r].pc = "done", ![r].response = h.pending]
        /\ UNCHANGED <<extractVars, layoutVars, cleanVars>>

\* the uploads: names and documents
UploadNames ==
    { <<"a", SP, "b", ".", "p", "d", "f">>,
      <<"a", "_", "b", ".", "P", "D", "F">>,
      <<"c", ".", "p", "d", "f">>,
      <<"c", ".", "t", "x", "t">> }

UploadDocs ==
    { <<TextPage(<< <<<<"A", "b">>>> >>)>>,
      <<TextPage(<< <<<<"C", "c">>>> >>), TextPage(<< <<<<"A", "b">>>>, <<<<"C", "c">>>> >>)>> }

\* a request as it arrives: start_page defaults to 1
Arrived(filename, file) ==
    [pc |-> "save", filename |-> filename, file |-> file, filepath |-> <<>>,
     start_page |-> 1, end_page |-> 0, total_pages |-> 0, read |-> <<>>,
     markdown_text |-> <<>>, pending |-> NoResponse, response |-> NoResponse]

InitServer ==
    /\ uploads = [n \in {secure_filename(f) : f \in UploadNames} |-> Absent]
    /\ handlers \in [Requests -> {Arrived(f, d) : f \in UploadNames, d \in UploadDocs}]
    /\ pdf = <<>> /\ start_page = 1 /\ end_page = 0
    /\ options = Options(FALSE, FALSE, FALSE, FALSE, FALSE, FALSE, FALSE)
    /\ avail = NoBackend
    /\ pc = "idle"
    /\ page_num = 0
    /\ common_footers = {}
    /\ markdown_content = <<>>
    /\ lines = <<>>
    /\ i = 0
    /\ paragraph_buffer = <<>>
    /\ in_list = FALSE
    /\ list_buffer = <<>>
    /\ result = Running
    /\ log = <<>>
    /\ lpage = EmptyPage /\ lpc = "idle" /\ llines = <<>> /\ ltext = None
    /\ ctext = <<>> /\ cpc = -1 /\ cout = <<>>

NextServer ==
    \E r \in Requests :
        \/ Save(r)
        \/ CountPages(r)
        \/ Extract(r)
        \/ Remove(r)
        \/ Exists(r)
        \/ Cleanup(r)

SpecServer == InitServer /\ [][NextServer]_vars

-----------------------------------------------------------------------------
(* The claims                                                              *)

\* whether text s ends with text t
EndsWithText(s, t) == Len(s) >= Len(t) /\ SubSeq(s, Len(s) - Len(t) + 1, Len(s)) = t

\* the ProcessLine step is about to read a line
AtLine == pc = "line" /\ i < Len(lines)

\* C1: a request whose range violates 1 <= start_page <= end_page <= total_pages
\* ends in an invalid-range error of a type of its own (the ValueError the
\* caller catches apart from other failures) and returns no Markdown.
C1_InvalidRangeRejected ==
    (pc = "done" /\ InvalidRange(start_page, end_page, Len(pdf)))
        => (result.kind = "raise" /\ result.type = "ValueError")

\* the '## Page <n>' headers of pages a..b, in order
ExpectedHeaders(a, b) == [k \in 1..(b - a + 1) |-> PageHeader(a + k - 1)]

\* C2: with include_page_numbers, the output of a valid range holds exactly
\* end_page - start_page + 1 headers '## Page <n>', one per page of the range,
\* in ascending page order, whatever the pages hold (empty pages included).
C2_OneHeaderPerPage ==
    (pc = "done" /\ result.kind = "return" /\ options.include_page_numbers)
        => /\ Count(result.value, <<"#", "#", SP, "P", "a", "g", "e", SP>>)
                = end_page - start_page + 1
           /\ SelectSeq(markdown_content,
                        LAMBDA c : \E n \in start_page..end_page : c = PageHeader(n))
                = ExpectedHeaders(start_page, end_page)

\* the trailing lines sampled by the first pass, and their counts
SampledLines == page_last_lines(pdf, start_page, end_page)
Occurrences(l) == LineCount(SampledLines, l)
\* the number of pages of the range that hold line l among their last three lines
PagesWith(l) ==
    Cardinality({k \in start_page..end_page :
                    \E j \in 1..Len(PageLastLines(pdf[k].raw)) : PageLastLines(pdf[k].raw)[j] = l})

\* C3, as stated: with filter_headers_footers, a line under 100 characters among
\* the last three lines of more than two pages of the range is absent from the
\* output, and a line among the trailing lines of only two pages is retained.
C3_AsStated ==
    (pc = "done" /\ result.kind = "return" /\ options.filter_headers_footers)
        => \A k \in 1..Len(SampledLines) :
              LET l == SampledLines[k]
              IN  /\ (PagesWith(l) > 2 /\ Len(l) < FooterMaxLen) => Count(result.value, l) = 0
                  /\ PagesWith(l) = 2 => Count(result.value, l) > 0

\* the ProcessLine step leaves the buffers and the output as they are
LineDropped ==
    /\ markdown_content' = markdown_content
    /\ paragraph_buffer' = paragraph_buffer
    /\ list_buffer' = list_buffer
    /\ in_list' = in_list

\* C3, amended: with filter_headers_footers, a line under 100 characters that
\* occurs more than twice among the sampled trailing lines (as it does when it
\* is among the last three lines of more than two pages) is dropped wherever a
\* page's cleaned text holds it; a line that occurs at most twice among them is
\* never judged boilerplate, and is not dropped unless it is a page-number stamp.
C3_OccurrencesDecide ==
    [][ /\ (pc = "first_pass" /\ pc' = "page" /\ options.filter_headers_footers)
            => \A k \in 1..Len(SampledLines) :
                  /\ (PagesWith(SampledLines[k]) > 2 /\ Len(SampledLines[k]) < FooterMaxLen)
                        => SampledLines[k] \in common_footers'
                  /\ Occurrences(SampledLines[k]) <= 2 => SampledLines[k] \notin common_footers'
        /\ (AtLine /\ options.filter_headers_footers /\ CurLine # <<>>)
            => /\ (Occurrences(CurLine) > 2 /\ Len(CurLine) < FooterMaxLen) => LineDropped
               /\ (Occurrences(CurLine) <= 2 /\ ~MatchPageNumber(CurLine)) => ~LineDropped
      ]_vars

\* a request of three pages or more has ended: a line on more than two pages is
\* gone from the output and a line that occurs twice is still there
C3_Witness ==
    /\ pc = "done" /\ result.kind = "return" /\ options.filter_headers_footers
    /\ \E k \in 1..Len(SampledLines) :
          PagesWith(SampledLines[k]) > 2 /\ Count(result.value, SampledLines[k]) = 0
    /\ \E k \in 1..Len(SampledLines) :
          Occurrences(SampledLines[k]) = 2 /\ Count(result.value, SampledLines[k]) > 0

\* the two words of a two-word page stand on the same top, more than 50 units
\* apart, the gap centered at half the page width; a is the left one
ColumnPair(page, a, b) ==
    /\ ~page.words_fail /\ Len(page.words) = 2
    /\ {a, b} = {1, 2}
    /\ page.words[a].top = page.words[b].top
    /\ page.words[b].x0 - page.words[a].x1 > 2 * 50
    /\ page.words[a].x1 + page.words[b].x0 = page.width

\* the index of the line that holds word w (0 when none does)
LineOf(ls, w) ==
    IF \E k \in 1..Len(ls) : \E j \in 1..Len(ls[k].words) : ls[k].words[j] = w
    THEN CHOOSE k \in 1..Len(ls) : \E j \in 1..Len(ls[k].words) : ls[k].words[j] = w
    ELSE 0

\* C4: two words on the same top, separated by a gap wider than 50 units
\* centered at 50% of the page width, come out on two different lines, the left
\* word's line first, whatever the widths of the two words.
C4_ColumnsInOrder ==
    lpc = "done" =>
        \A a, b \in 1..2 :
            ColumnPair(lpage, a, b) =>
                /\ LineOf(llines, lpage.words[a]) > 0
                /\ LineOf(llines, lpage.words[a]) < LineOf(llines, lpage.words[b])
                /\ ltext = lpage.words[a].text \o <<NL>> \o lpage.words[b].text

\* one iteration of the loop appended line to the last list item
Continued(line) ==
    /\ list_buffer' = [list_buffer EXCEPT
                          ![Len(list_buffer)] = list_buffer[Len(list_buffer)] \o <<SP>> \o line]
    /\ in_list'
    /\ paragraph_buffer' = paragraph_buffer
    /\ markdown_content' = markdown_content

\* C5, as stated: while a list is open, every non-blank line that is not a list
\* item is appended to the last buffered item after a single space and starts
\* no paragraph.
C5_AsStated ==
    [][(AtLine /\ in_list /\ CurLine # <<>> /\ ~is_list_item(CurLine))
          => Continued(CurLine)]_vars

\* C5, amended: while a list is open, a non-blank line that is not a list item,
\* is not dropped as boilerplate or page-number stamp and is not a heading line
\* (preserve_formatting true and detect_heading true) is appended to the last
\* buffered item after a single space and starts no paragraph.
C5_ContinuationUnlessHeading ==
    [][(/\ AtLine /\ in_list /\ CurLine # <<>> /\ ~is_list_item(CurLine)
        /\ ~IsFiltered(CurLine, options.filter_headers_footers, common_footers)
        /\ ~(options.preserve_formatting /\ detect_heading(CurLine, NextLine)))
          => Continued(CurLine)]_vars

\* a line that is no list item has just been appended to the open list's last item
C5_Witness ==
    /\ pc = "line" /\ i >= 1 /\ in_list /\ list_buffer # <<>>
    /\ Strip(lines[i]) # <<>> /\ ~is_list_item(Strip(lines[i]))
    /\ EndsWithText(list_buffer[Len(list_buffer)], <<SP>> \o Strip(lines[i]))
    /\ paragraph_buffer = <<>>

\* C6: clean_text is idempotent: cleaning a cleaned text gives it back.
C6_CleanIdempotent ==
    cpc = 2 => cout[2] = cout[1]

\* no chunk added to the output by this step is a heading
NoHeadingEmitted ==
    \A k \in (Len(markdown_content) + 1)..Len(markdown_content') :
        ~(Len(markdown_content'[k]) >= 1 /\ markdown_content'[k][1] = "#")

\* the paragraph buffer goes to the output as one paragraph when the page ends
ParagraphFlushed ==
    (pc = "line" /\ i >= Len(lines) /\ paragraph_buffer # <<>>)
        => /\ Len(markdown_content') > Len(markdown_content)
           /\ \E k \in (Len(markdown_content) + 1)..Len(markdown_content') :
                 markdown_content'[k] = Join(paragraph_buffer, <<SP>>) \o <<NL, NL>>

\* C7, as stated: with preserve_formatting false no line is a heading and every
\* non-blank, non-filtered line that is not a list item goes to a paragraph,
\* whatever block is open.
C7_AsStated ==
    [][(/\ AtLine /\ ~options.preserve_formatting /\ CurLine # <<>>
        /\ ~IsFiltered(CurLine, options.filter_headers_footers, common_footers)
        /\ ~is_list_item(CurLine))
          => /\ paragraph_buffer' = Append(paragraph_buffer, CurLine)
             /\ NoHeadingEmitted]_vars

\* C7, amended: with preserve_formatting false no line is emitted as a heading;
\* a non-blank, non-filtered line that is not a list item is buffered for a
\* paragraph when no list is open (and the buffer is emitted as a paragraph by
\* the end of the page), and is appended to the last list item when a list is
\* open.
C7_ParagraphUnlessInList ==
    [][ /\ (AtLine /\ ~options.preserve_formatting) => NoHeadingEmitted
        /\ (/\ AtLine /\ ~options.preserve_formatting /\ CurLine # <<>>
            /\ ~IsFiltered(CurLine, options.filter_headers_footers, common_footers)
            /\ ~is_list_item(CurLine))
              => IF in_list THEN Continued(CurLine)
                 ELSE /\ paragraph_buffer' = Append(paragraph_buffer, CurLine)
                      /\ list_buffer' = list_buffer /\ ~in_list'
        /\ ParagraphFlushed
      ]_vars

\* with preserve_formatting false, a line detect_heading accepts has just been
\* buffered for a paragraph
C7_Witness ==
    /\ pc = "line" /\ i >= 1 /\ ~options.preserve_formatting /\ ~in_list
    /\ paragraph_buffer # <<>>
    /\ paragraph_buffer[Len(paragraph_buffer)] = Strip(lines[i])
    /\ detect_heading(Strip(lines[i]), IF i < Len(lines) THEN Strip(lines[i + 1]) ELSE None)

\* C8: with include_page_breaks, the output of a valid range holds exactly
\* end_page - start_page separators, one between each two consecutive pages,
\* and does not end with a separator, whatever the pages hold.
C8_SeparatorsBetweenPages ==
    (pc = "done" /\ result.kind = "return" /\ options.include_page_breaks)
        => /\ Count(result.value, PageSeparator) = end_page - start_page
           /\ ~EndsWithText(result.value, PageSeparator)

\* C9: with preserve_formatting true, a line that detect_heading accepts
\* flushes the open paragraph or list, is emitted at once as '### <line>' and
\* leaves no open block, also when it begins with a bullet or a numbered marker.
C9_HeadingEmitted ==
    [][(/\ AtLine /\ options.preserve_formatting /\ CurLine # <<>>
        /\ ~IsFiltered(CurLine, options.filter_headers_footers, common_footers)
        /\ detect_heading(CurLine, NextLine))
          => /\ Len(markdown_content') > Len(markdown_content)
             /\ markdown_content'[Len(markdown_content')]
                   = <<"#", "#", "#", SP>> \o CurLine \o <<NL, NL>>
             /\ ~in_list' /\ paragraph_buffer' = <<>> /\ list_buffer' = <<>>]_vars

\* C10: the text of every line the line grouper builds is the single-space
\* join of its words in left-to-right order (ascending x0), also when the words
\* of a line differ in top within the tolerance.
C10_LineLeftToRight ==
    lpc = "done" =>
        \A k \in 1..Len(llines) :
            /\ \A a, b \in 1..Len(llines[k].words) :
                  a < b => llines[k].words[a].x0 <= llines[k].words[b].x0
            /\ llines[k].text = LineText(llines[k].words)


\* the pages of the requested range on which extract_words raises
FailedPages == {k \in start_page..end_page : pdf[k].words_fail}

\* C11: when pdfplumber's extract_words fails on a page of the requested range,
\* the request ends in a raised extraction error: it never returns an output
\* (one that leaves the page out or holds other content in its place).
C11_FailureSurfaced ==
    (pc = "done" /\ FailedPages # {}) => result.kind = "raise"

\* the response to request h when no other request is served beside it
AloneResponse(h) ==
    IF ~allowed_file(h.filename) THEN InvalidType
    ELSE LET res == extract_text_to_markdown(h.file, 1, Len(h.file), FormDefaults)
         IN  IF res.kind = "raise" THEN Failure(res.msg)
             ELSE Success(res.value, 1, Len(h.file), Len(h.file))

\* C12: whatever the interleaving of the requests, each finished request has
\* read only the document it uploaded itself and answers what it would answer
\* if it were served alone.
C12_RequestsIsolated ==
    \A r \in Requests :
        handlers[r].pc = "done" =>
            /\ handlers[r].read \in {<<>>, handlers[r].file}
            /\ handlers[r].response = AloneResponse(handlers[r])

\* the backend an entry of the log announces: 1 Marker, 2 PyMuPDF, 3 MarkItDown,
\* 4 pdfplumber, 0 for the other entries
BackendOf(e) ==
    CASE e = "Attempting extraction with Marker..." -> 1
      [] e = "Attempting extraction with PyMuPDF..." -> 2
      [] e = "Attempting extraction with MarkItDown..." -> 3
      [] e = "Falling back to pdfplumber extraction..." -> 4
      [] OTHER -> 0

\* the backends that ran, in the order they ran, and the last of them
Tried == SelectSeq([k \in 1..Len(log) |-> BackendOf(log[k])], LAMBDA b : b # 0)
LastTried == Tried[Len(Tried)]
Ran(b) == \E k \in 1..Len(Tried) : Tried[k] = b

\* the failure of backend b was logged
FailureLogged(b) ==
    \E k \in 1..Len(log) :
        log[k] = CASE b = 1 -> "Marker failed with error"
                   [] b = 2 -> "PyMuPDF failed with error"
                   [] b = 3 -> "MarkItDown failed with error"
                   [] OTHER -> "<never logged>"

\* the backend is requested and installed; pdfplumber always is
IsEnabled(b) ==
    CASE b = 1 -> options.use_marker /\ avail.marker
      [] b = 2 -> options.use_pymupdf /\ avail.pymupdf
      [] b = 3 -> options.use_markitdown /\ avail.markitdown
      [] OTHER -> TRUE

\* the enabled backends ran one after the other in priority order, none left out
\* before the last one that ran
TriedInOrder ==
    /\ Tried # <<>>
    /\ \A a, b \in 1..Len(Tried) : a < b => Tried[a] < Tried[b]
    /\ \A k \in 1..Len(Tried) : IsEnabled(Tried[k])
    /\ \A b \in 1..4 : (IsEnabled(b) /\ b < LastTried) => Ran(b)

\* C13 as stated: the enabled backends run in priority order; a backend that ran
\* without failing is the last that ran; a failed backend is followed by the
\* next one; and the call never ends in an exception thrown to the caller.
C13_AsStated ==
    pc = "done" =>
        /\ TriedInOrder
        /\ \A b \in 1..3 : (Ran(b) /\ ~FailureLogged(b)) => LastTried = b
        /\ \A b \in 1..3 : FailureLogged(b) => (Ran(b) /\ LastTried > b)
        /\ result.kind = "return"

\* C13, amended: the enabled backends run in priority order; Marker and PyMuPDF
\* end the call with their result when they succeed; MarkItDown does so only when
\* the range is the whole document (start_page = 1, end_page >= total_pages) and
\* otherwise its text is dropped and pdfplumber runs; a failure of one of these
\* three is logged and the next backend runs; pdfplumber runs last, and its
\* failure, and no other, is raised to the caller.
C13_ChainAsCoded ==
    pc = "done" =>
        /\ TriedInOrder
        /\ (Ran(1) /\ ~FailureLogged(1)) =>
               (LastTried = 1 /\ result = Returned(MarkerText))
        /\ (Ran(2) /\ ~FailureLogged(2)) =>
               (LastTried = 2
                /\ result = Returned(Concat(PyMuPDFChunks(pdf, start_page - 1, end_page))))
        /\ (Ran(3) /\ ~FailureLogged(3)) =>
               IF start_page = 1 /\ end_page >= Len(pdf)
               THEN LastTried = 3 /\ result = Returned(MarkItDownText)
               ELSE LastTried = 4
        /\ \A b \in 1..3 : FailureLogged(b) => (Ran(b) /\ LastTried > b)
        /\ LastTried = 4 =>
               result = extract_text_to_markdown(pdf, start_page, end_page, options)
        /\ result.kind = "raise" => (LastTried = 4 /\ result.type = "Exception")

\* Marker failed, MarkItDown ran without failing on a part of the document, and
\* pdfplumber supplied the returned text
C13_Witness ==
    /\ pc = "done"
    /\ FailureLogged(1)
    /\ Ran(3) /\ ~FailureLogged(3)
    /\ ~(start_page = 1 /\ end_page >= Len(pdf))
    /\ LastTried = 4
    /\ result.kind = "return"

\* what the second pass appends for page pn (0-indexed) when its loop starts
\* from empty buffers: header, blocks, end-of-page flush and separator
PageOutput(pn) ==
    LET text == extract_text_with_layout(pdf[pn + 1])
    IN  IF text = None \/ text = <<>> THEN <<>>
        ELSE LET st == RunLoop(SplitLines(clean_text(text)), 0,
                               [pb |-> <<>>, il |-> FALSE, lb |-> <<>>,
                                mc |-> IF options.include_page_numbers
                                       THEN <<PageHeader(pn + 1)>> ELSE <<>>],
                               options, common_footers)
             IN  EndOfPage(st.pb, st.il, st.lb, st.mc, options, pn, end_page)

\* the same for the pages a .. b - 1
RECURSIVE PagesOutput(_, _)
PagesOutput(a, b) == IF a >= b THEN <<>> ELSE PageOutput(a) \o PagesOutput(a + 1, b)

\* the relation between in_list and the two buffers
BuffersConsistent ==
    /\ in_list <=> list_buffer # <<>>
    /\ ~(paragraph_buffer # <<>> /\ list_buffer # <<>>)

\* C14 as stated: after every processed line in_list holds exactly when
\* list_buffer is non-empty and the two buffers are never both non-empty; both
\* buffers are empty when a page starts and after the end-of-page flush.
C14_AsStated ==
    /\ pc = "line" => BuffersConsistent
    /\ (pc = "line" /\ i = 0) => (paragraph_buffer = <<>> /\ list_buffer = <<>>)
    /\ pc = "page" => (paragraph_buffer = <<>> /\ list_buffer = <<>>)

\* C14, amended: in_list holds exactly when list_buffer is non-empty and the two
\* buffers are never both non-empty; both buffers are empty when the loop of a
\* page with text starts; the end-of-page flush emits what they hold (it does not
\* empty them), so that between two pages the output is that of the pages done
\* so far, each assembled from empty buffers: no text of one page is emitted
\* after the header of a later page.
C14_BuffersPerPage ==
    /\ BuffersConsistent
    /\ (pc = "line" /\ i = 0) => (paragraph_buffer = <<>> /\ list_buffer = <<>> /\ ~in_list)
    /\ pc = "page" => markdown_content = PagesOutput(start_page - 1, page_num)

\* a later page of the range is in its loop with a list open, after an earlier
\* page ended with text in a buffer
C14_Witness ==
    /\ pc = "line"
    /\ page_num > start_page - 1
    /\ i > 0
    /\ in_list /\ list_buffer # <<>>
    /\ PageOutput(page_num - 1) # <<>>
    /\ markdown_content # <<>>

=============================================================================
